---- MODULE Spec2Model ----
(***************************************************************************)
(* Model of src/bytes.rs: the enum Bytes<'a> (Slice / Bytes / Vec /        *)
(* String), the ToBytes conversions into it, and its size / as_ref / cmp / *)
(* eq / hash implementations.                                              *)
(*                                                                         *)
(* Byte storage is a heap of allocations.  A caller owns sources (byte     *)
(* memory, text memory, Vec<u8>, String, bytes::Bytes handles) in `held`   *)
(* and converts them with to_bytes; the resulting Bytes values live in     *)
(* `vals` until they are dropped.                                          *)
(***************************************************************************)
EXTENDS Integers, Sequences, FiniteSets, Bags

VARIABLES input, heap, held, vals, last

vars == <<input, heap, held, vals, last>>

\* ------------------------------------------------------------------ bounds
MaxLen == 2     \* longest free-form byte content
MaxBufs == 2    \* allocations made in one run
MaxHeld == 1    \* sources the caller owns at one time
MaxVals == 2    \* Bytes values alive at one time
MaxArr == 17    \* longest fixed-size array the caller tries to convert

\* 'a' and the two bytes of U+00E9: text and non-text contents both occur.
ByteVals == {97, 195, 169}

SeqsUpTo(n) == UNION {[1..k -> ByteVals] : k \in 0..n}

\* std::str validity of a byte sequence, for the 1- and 2-byte forms.
RECURSIVE IsUtf8(_)
IsUtf8(s) ==
    IF s = <<>> THEN TRUE
    ELSE IF s[1] < 128 THEN IsUtf8(Tail(s))
    ELSE IF s[1] \in 194..223
         THEN Len(s) >= 2 /\ s[2] \in 128..191 /\ IsUtf8(Tail(Tail(s)))
         ELSE FALSE

\* The byte strings a caller works with: any bytes up to MaxLen, and the
\* big-endian bytes of the integer 0 (i.to_be_bytes()) at the longer widths.
Inputs == SeqsUpTo(MaxLen) \cup {[k \in 1..n |-> 0] : n \in (MaxLen + 1)..MaxArr}

\* ------------------------------------------------------------------- state
\* heap[a]: one allocation.  kind: what made it ("mem", "str": caller memory
\* that slices borrow; "Vec", "String": the buffer of an owned Vec<u8> /
\* String; "SBytes": storage of a caller's bytes::Bytes; "array": storage
\* made by bytes::Bytes::copy_from_slice; "Other": a value of a type that
\* has no impl of ToBytes, a VecDeque<u8> say).  data: its bytes; orig: the
\* bytes it was made with (kept for the record when it is freed).
\* counted: a reference count manages it; rc: that count; freed: the
\* allocation was released.
\* input: the byte strings the caller has at hand in this run.
\* held: the sources the caller owns, each [kind, ptr, len].
\* vals: the bag of live Bytes values, each [tag, ptr, len]; two clones of
\* one value are two copies of the same element.
\* last: the operation that produced the current state: its name, its
\* operand (arg), the Bytes value it returned (out), the address of the
\* source's first byte (addr) and the reference count of the storage (rc0)
\* before it, and the result of a comparison or hash (res).
NoLast == [op |-> "none", arg |-> 0, out |-> 0, addr |-> 0, rc0 |-> 0,
           res |-> 0]

Init ==
    /\ input \in {<<s>> : s \in Inputs}
    /\ heap = <<>>
    /\ held = {}
    /\ vals = EmptyBag
    /\ last = NoLast

One(v) == SetToBag({v})

Live == BagToSet(vals)

\* --------------------------------------------- reference-counted storage
\* Rc::new / bytes::Bytes creation: a count of one.
RcNew(h, a) == [h EXCEPT ![a].counted = TRUE, ![a].rc = 1]

\* Rc::clone / bytes::Bytes::clone: one more holder of the same storage.
RcInc(h, a) == [h EXCEPT ![a].rc = @ + 1]

\* Drop of one holder: the storage is freed when the count reaches zero.
RcDec(h, a) ==
    [h EXCEPT ![a].rc = @ - 1, ![a].freed = (h[a].rc - 1 = 0),
              ![a].data = IF h[a].rc - 1 = 0 THEN <<>> ELSE @]

\* Release of storage that no count manages.
Free(h, a) == [h EXCEPT ![a].freed = TRUE, ![a].data = <<>>]

\* bytes::Bytes::copy_from_slice: fresh storage holding a copy, count one.
CopyFromSlice(h, bytes) ==
    Append(h, [kind |-> "array", data |-> bytes, orig |-> bytes,
               counted |-> TRUE, rc |-> 1, freed |-> FALSE])

\* ------------------------------------------------------------- conversions
\* Each conversion yields the Bytes value and the heap after it.
ToBytes_slice(h, s) ==
    [b |-> [tag |-> "Slice", ptr |-> s.ptr, len |-> s.len], h |-> h]

ToBytes_str(h, s) ==
    [b |-> [tag |-> "Slice", ptr |-> s.ptr, len |-> s.len], h |-> h]

\* A blanket impl for [u8; N], any N.
ArraySizes_anyN == 0..(MaxArr + 1)

ArraySizes == 0..16

ToBytes_array(h, arr) ==
    [b |-> [tag |-> "Bytes", ptr |-> Len(h) + 1, len |-> Len(arr)],
     h |-> CopyFromSlice(h, arr)]

\* String::into_bytes before the wrap: the Vec variant.
ToBytes_String_asVec(h, s) ==
    [b |-> [tag |-> "Vec", ptr |-> s.ptr, len |-> s.len],
     h |-> RcNew(h, s.ptr)]

ToBytes_String(h, s) ==
    [b |-> [tag |-> "String", ptr |-> s.ptr, len |-> s.len],
     h |-> RcNew(h, s.ptr)]

\* Rc::new(self.clone()): the bytes are copied to a new buffer and the
\* source buffer is released.
ToBytes_Vec_copy(h, v) ==
    [b |-> [tag |-> "Vec", ptr |-> Len(h) + 1, len |-> v.len],
     h |-> Append(Free(h, v.ptr),
                  [kind |-> "Vec", data |-> h[v.ptr].data,
                   orig |-> h[v.ptr].data, counted |-> TRUE, rc |-> 1,
                   freed |-> FALSE])]

ToBytes_Vec(h, v) ==
    [b |-> [tag |-> "Vec", ptr |-> v.ptr, len |-> v.len],
     h |-> RcNew(h, v.ptr)]

\* bytes::Bytes::copy_from_slice(&self): new storage, the source released.
ToBytes_SBytes_copy(h, sb) ==
    [b |-> [tag |-> "Bytes", ptr |-> Len(h) + 1, len |-> sb.len],
     h |-> Append(RcDec(h, sb.ptr),
                  [kind |-> "SBytes", data |-> h[sb.ptr].data,
                   orig |-> h[sb.ptr].data, counted |-> TRUE, rc |-> 1,
                   freed |-> FALSE])]

ToBytes_SBytes(h, sb) ==
    [b |-> [tag |-> "Bytes", ptr |-> sb.ptr, len |-> sb.len], h |-> h]

ToBytes_SBytesRef(h, sb) ==
    [b |-> [tag |-> "Bytes", ptr |-> sb.ptr, len |-> sb.len],
     h |-> RcInc(h, sb.ptr)]

ToBytes_Bytes(h, v) == [b |-> v, h |-> h]

\* #[derive(Clone)]: a Slice is re-borrowed, the other variants clone
\* their handle.
\* A bitwise copy of the handle: no count is taken.
BytesClone_bitwise(h, v) == [b |-> v, h |-> h]

BytesClone(h, v) ==
    CASE v.tag = "Slice"  -> [b |-> v, h |-> h]
      [] v.tag = "Bytes"  -> [b |-> v, h |-> RcInc(h, v.ptr)]
      [] v.tag = "Vec"    -> [b |-> v, h |-> RcInc(h, v.ptr)]
      [] v.tag = "String" -> [b |-> v, h |-> RcInc(h, v.ptr)]

ToBytes_BytesRef(h, v) == BytesClone(h, v)

\* Drop glue of the enum: a Slice owns nothing, the other variants release
\* their handle.
\* The Vec variant wrapped in ManuallyDrop: its count is never given back.
BytesDrop_leakVec(h, v) ==
    CASE v.tag = "Slice"  -> h
      [] v.tag = "Bytes"  -> RcDec(h, v.ptr)
      [] v.tag = "Vec"    -> h
      [] v.tag = "String" -> RcDec(h, v.ptr)

BytesDrop(h, v) ==
    CASE v.tag = "Slice"  -> h
      [] v.tag = "Bytes"  -> RcDec(h, v.ptr)
      [] v.tag = "Vec"    -> RcDec(h, v.ptr)
      [] v.tag = "String" -> RcDec(h, v.ptr)

\* ------------------------------------------------------- size and as_ref
size(v) ==
    CASE v.tag = "Slice"  -> v.len
      [] v.tag = "Bytes"  -> v.len
      [] v.tag = "Vec"    -> v.len
      [] v.tag = "String" -> v.len

\* The bytes at an address range of the heap.
Mem(h, a, n) == SubSeq(h[a].data, 1, n)

\* The String arm keeps the ASCII bytes only.
as_ref_ascii(h, v) ==
    CASE v.tag = "Slice"  -> Mem(h, v.ptr, v.len)
      [] v.tag = "Bytes"  -> Mem(h, v.ptr, v.len)
      [] v.tag = "Vec"    -> Mem(h, v.ptr, v.len)
      [] v.tag = "String" ->
            SelectSeq(Mem(h, v.ptr, v.len), LAMBDA b : b < 128)

as_ref(h, v) ==
    CASE v.tag = "Slice"  -> Mem(h, v.ptr, v.len)
      [] v.tag = "Bytes"  -> Mem(h, v.ptr, v.len)
      [] v.tag = "Vec"    -> Mem(h, v.ptr, v.len)
      [] v.tag = "String" -> Mem(h, v.ptr, v.len)

\* Address of the first byte seen through as_ref.
FirstByteAddr(v) == v.ptr

\* ------------------------------------------------- comparison and hashing
\* <[u8] as Ord>::cmp: the first differing byte decides, then the lengths.
RECURSIVE SliceCmp(_, _)
SliceCmp(a, b) ==
    IF a = <<>> /\ b = <<>> THEN "Equal"
    ELSE IF a = <<>> THEN "Less"
    ELSE IF b = <<>> THEN "Greater"
    ELSE IF a[1] < b[1] THEN "Less"
    ELSE IF a[1] > b[1] THEN "Greater"
    ELSE SliceCmp(Tail(a), Tail(b))

\* <[u8] as PartialEq>::eq: same length and the same byte at every index.
SliceEq(a, b) ==
    /\ Len(a) = Len(b)
    /\ \A k \in 1..Len(a) : a[k] = b[k]

\* <[u8] as Hash>::hash: the length, then the bytes, written to the hasher.
SliceHash(a) == <<Len(a)>> \o a

\* Discriminant of a variant, in declaration order.
Discr(v) ==
    CASE v.tag = "Slice"  -> 0
      [] v.tag = "Bytes"  -> 1
      [] v.tag = "Vec"    -> 2
      [] v.tag = "String" -> 3

\* #[derive(Ord)]: the variants are ordered before their contents.
cmp_derived(h, x, y) ==
    IF Discr(x) < Discr(y) THEN "Less"
    ELSE IF Discr(x) > Discr(y) THEN "Greater"
    ELSE SliceCmp(as_ref(h, x), as_ref(h, y))

\* #[derive(PartialEq)]: values of different variants are never equal.
eq_derived(h, x, y) ==
    /\ x.tag = y.tag
    /\ SliceEq(as_ref(h, x), as_ref(h, y))

\* #[derive(Hash)]: the discriminant is written before the contents.
hash_derived(h, x) == <<Discr(x)>> \o SliceHash(as_ref(h, x))

cmp(h, x, y) == SliceCmp(as_ref(h, x), as_ref(h, y))

partial_cmp(h, x, y) == [some |-> TRUE, ord |-> cmp(h, x, y)]

eq(h, x, y) == SliceEq(as_ref(h, x), as_ref(h, y))

hash(h, x) == SliceHash(as_ref(h, x))

\* ------------------------------------------------------------ the caller
SourceKinds == {"mem", "str", "Vec", "String", "SBytes", "Other"}

\* The source types that have an impl of ToBytes taking them by value or,
\* for the borrowed ones, by reference.
ImplKinds == {"mem", "str", "Vec", "String", "SBytes"}

\* A source of the given kind holding the bytes s, at a fresh address.
AllocSource(h, kind, s) ==
    Append(h, [kind |-> kind, data |-> s, orig |-> s,
               counted |-> (kind = "SBytes"),
               rc |-> IF kind = "SBytes" THEN 1 ELSE 0, freed |-> FALSE])

SrcHandle(h, kind, s) == [kind |-> kind, ptr |-> Len(h) + 1, len |-> Len(s)]

\* The impl of ToBytes that the source's type selects.
to_bytes(h, src) ==
    CASE src.kind = "mem"    -> ToBytes_slice(h, src)
      [] src.kind = "str"    -> ToBytes_str(h, src)
      [] src.kind = "Vec"    -> ToBytes_Vec(h, src)
      [] src.kind = "String" -> ToBytes_String(h, src)
      [] src.kind = "SBytes" -> ToBytes_SBytes(h, src)

\* The caller makes a source holding one of its byte strings.
NewSource(kind, s) ==
    /\ Len(heap) < MaxBufs
    /\ Cardinality(held) < MaxHeld
    /\ kind \in {"str", "String"} => IsUtf8(s)
    /\ heap' = AllocSource(heap, kind, s)
    /\ held' = held \cup {SrcHandle(heap, kind, s)}
    /\ last' = [NoLast EXCEPT !.op = "new"]
    /\ UNCHANGED <<input, vals>>

\* The caller drops a source it still owns.  Memory that a Slice borrows
\* outlives the Slice (the lifetime 'a of Bytes<'a>).
DropSource(s) ==
    /\ s \in held
    /\ s.kind \in {"mem", "str"} =>
          \A v \in Live : ~(v.tag = "Slice" /\ v.ptr = s.ptr)
    /\ heap' = IF s.kind = "SBytes" THEN RcDec(heap, s.ptr)
               ELSE Free(heap, s.ptr)
    /\ held' = held \ {s}
    /\ last' = [NoLast EXCEPT !.op = "drop_source"]
    /\ UNCHANGED <<input, vals>>

\* to_bytes on borrowed memory (&[u8], &str): the source stays with the
\* caller.
ConvertBorrowed(s) ==
    /\ s \in held
    /\ s.kind \in ImplKinds \cap {"mem", "str"}
    /\ BagCardinality(vals) < MaxVals
    /\ LET r == to_bytes(heap, s) IN
        /\ vals' = vals (+) One(r.b)
        /\ heap' = r.h
        /\ last' = [NoLast EXCEPT !.op = s.kind, !.arg = s, !.out = r.b,
                                  !.addr = s.ptr]
    /\ UNCHANGED <<input, held>>

\* to_bytes on an owned source (Vec<u8>, String, bytes::Bytes): the source
\* is moved into the call.
ConvertOwned(s) ==
    /\ s \in held
    /\ s.kind \in ImplKinds \cap {"Vec", "String", "SBytes"}
    /\ BagCardinality(vals) < MaxVals
    /\ LET r == to_bytes(heap, s) IN
        /\ vals' = vals (+) One(r.b)
        /\ heap' = r.h
        /\ last' = [NoLast EXCEPT !.op = s.kind, !.arg = s, !.out = r.b,
                                  !.addr = s.ptr, !.rc0 = heap[s.ptr].rc]
    /\ held' = held \ {s}
    /\ UNCHANGED input

\* to_bytes on &bytes::Bytes: the caller keeps its handle.
ConvertSBytesRef(s) ==
    /\ s \in held
    /\ s.kind = "SBytes"
    /\ BagCardinality(vals) < MaxVals
    /\ LET r == ToBytes_SBytesRef(heap, s) IN
        /\ vals' = vals (+) One(r.b)
        /\ heap' = r.h
        /\ last' = [NoLast EXCEPT !.op = "SBytesRef", !.arg = s,
                                  !.out = r.b, !.addr = s.ptr,
                                  !.rc0 = heap[s.ptr].rc]
    /\ UNCHANGED <<input, held>>

\* to_bytes on a [u8; n]: implemented for the enumerated sizes only; for any
\* other size the call does not compile and nothing is built.
ConvertArray(arr) ==
    /\ Len(arr) \in ArraySizes
    /\ Len(heap) < MaxBufs
    /\ BagCardinality(vals) < MaxVals
    /\ LET r == ToBytes_array(heap, arr) IN
        /\ vals' = vals (+) One(r.b)
        /\ heap' = r.h
        /\ last' = [NoLast EXCEPT !.op = "array", !.arg = arr, !.out = r.b]
    /\ UNCHANGED <<input, held>>

RejectArray(arr) ==
    /\ Len(arr) \notin ArraySizes
    /\ last' = [NoLast EXCEPT !.op = "array_rejected", !.arg = arr]
    /\ UNCHANGED <<input, heap, held, vals>>

\* to_bytes on a source whose type has no impl: the call does not compile.
RejectSource(s) ==
    /\ s \in held
    /\ s.kind \notin ImplKinds
    /\ last' = [NoLast EXCEPT !.op = "rejected", !.arg = s]
    /\ UNCHANGED <<input, heap, held, vals>>

\* to_bytes on an existing Bytes, by value: the value is moved.
ConvertBytes(v) ==
    /\ v \in Live
    /\ LET r == ToBytes_Bytes(heap, v) IN
        /\ vals' = (vals (-) One(v)) (+) One(r.b)
        /\ heap' = r.h
        /\ last' = [NoLast EXCEPT !.op = "Bytes", !.arg = v, !.out = r.b,
                                  !.addr = v.ptr, !.rc0 = heap[v.ptr].rc]
    /\ UNCHANGED <<input, held>>

\* to_bytes on &Bytes: a clone beside the original.
ConvertBytesRef(v) ==
    /\ v \in Live
    /\ BagCardinality(vals) < MaxVals
    /\ LET r == ToBytes_BytesRef(heap, v) IN
        /\ vals' = vals (+) One(r.b)
        /\ heap' = r.h
        /\ last' = [NoLast EXCEPT !.op = "BytesRef", !.arg = v, !.out = r.b,
                                  !.addr = v.ptr, !.rc0 = heap[v.ptr].rc]
    /\ UNCHANGED <<input, held>>

\* A Bytes value goes out of scope.
DropBytes(v) ==
    /\ v \in Live
    /\ heap' = BytesDrop(heap, v)
    /\ vals' = vals (-) One(v)
    /\ last' = [NoLast EXCEPT !.op = "drop", !.arg = v,
                              !.rc0 = heap[v.ptr].rc]
    /\ UNCHANGED <<input, held>>

Next ==
    \/ \E kind \in SourceKinds : NewSource(kind, input[1])
    \/ \E s \in held : DropSource(s)
    \/ \E s \in held : ConvertBorrowed(s)
    \/ \E s \in held : ConvertOwned(s)
    \/ \E s \in held : ConvertSBytesRef(s)
    \/ ConvertArray(input[1])
    \/ RejectArray(input[1])
    \/ \E s \in held : RejectSource(s)
    \/ \E v \in Live : ConvertBytes(v)
    \/ \E v \in Live : ConvertBytesRef(v)
    \/ \E v \in Live : DropBytes(v)

Spec == Init /\ [][Next]_vars

\* ------------------------------------ two values, compared and hashed
PairKinds == ImplKinds \cup {"array"}

\* The Bytes value a caller gets from a fresh source of the given kind.
BuildVal(h, kind, s) ==
    IF kind = "array" THEN ToBytes_array(h, s)
    ELSE to_bytes(AllocSource(h, kind, s), SrcHandle(h, kind, s))

\* The sources still with the caller after BuildVal: the borrowed ones.
Kept(h, kind, s) ==
    IF kind \in {"mem", "str"} THEN {SrcHandle(h, kind, s)} ELSE {}

InitPair ==
    \E ka \in PairKinds, kb \in PairKinds :
    \E sa \in SeqsUpTo(MaxLen), sb \in SeqsUpTo(MaxLen) :
        /\ ka \in {"str", "String"} => IsUtf8(sa)
        /\ kb \in {"str", "String"} => IsUtf8(sb)
        /\ LET r1 == BuildVal(<<>>, ka, sa)
               r2 == BuildVal(r1.h, kb, sb) IN
            /\ input = <<sa, sb>>
            /\ heap = r2.h
            /\ held = Kept(<<>>, ka, sa) \cup Kept(r1.h, kb, sb)
            /\ vals = One(r1.b) (+) One(r2.b)
            /\ last = NoLast

CallEq(x, y) ==
    /\ last' = [NoLast EXCEPT !.op = "eq", !.arg = <<x, y>>,
                              !.res = eq(heap, x, y)]
    /\ UNCHANGED <<input, heap, held, vals>>

CallCmp(x, y) ==
    /\ last' = [NoLast EXCEPT !.op = "cmp", !.arg = <<x, y>>,
                              !.res = cmp(heap, x, y)]
    /\ UNCHANGED <<input, heap, held, vals>>

CallPartialCmp(x, y) ==
    /\ last' = [NoLast EXCEPT !.op = "partial_cmp", !.arg = <<x, y>>,
                              !.res = partial_cmp(heap, x, y)]
    /\ UNCHANGED <<input, heap, held, vals>>

CallHash(x) ==
    /\ last' = [NoLast EXCEPT !.op = "hash", !.arg = <<x>>,
                              !.res = hash(heap, x)]
    /\ UNCHANGED <<input, heap, held, vals>>

NextPair ==
    \/ \E x \in Live, y \in Live : CallEq(x, y)
    \/ \E x \in Live, y \in Live : CallCmp(x, y)
    \/ \E x \in Live, y \in Live : CallPartialCmp(x, y)
    \/ \E x \in Live : CallHash(x)

SpecPair == InitPair /\ [][NextPair]_vars

\* ================================================================ claims
\* The bytes the storage behind v was made with.
Orig(v) == heap[v.ptr].orig

Conversions == {"mem", "str", "array", "Vec", "String", "SBytes",
                "SBytesRef", "Bytes", "BytesRef"}

\* C1: every live Bytes value, whichever variant backs it and however it
\* was converted, cloned or re-converted, has size() equal to the length of
\* as_ref() and as_ref() equal, byte for byte, to the bytes of its source.
C1_SizeAndView ==
    /\ \A v \in Live :
        /\ size(v) = Len(as_ref(heap, v))
        /\ size(v) = Len(Orig(v))
        /\ as_ref(heap, v) = Orig(v)
        /\ Orig(v) = input[1]
    /\ last.op \in Conversions => last.out \in Live

\* A clone of a String value over a two-byte character is live.
C1_Witness ==
    /\ last.op = "BytesRef"
    /\ last.out.tag = "String"
    /\ size(last.out) = 2
    /\ as_ref(heap, last.out) = <<195, 169>>
    /\ CopiesIn(last.out, vals) = 2

\* C2: for two values of any pair of variants, eq holds exactly when their
\* byte sequences are the same; the variant tag plays no part.
C2_EqIffSameBytes ==
    /\ \A x \in Live, y \in Live :
          eq(heap, x, y) <=> (Orig(x) = Orig(y))
    /\ last.op = "eq" =>
          (last.res <=> (Orig(last.arg[1]) = Orig(last.arg[2])))

\* eq returned TRUE for a Vec value and a String value over the same bytes.
C2_Witness ==
    /\ last.op = "eq"
    /\ last.res = TRUE
    /\ last.arg[1].tag = "Vec"
    /\ last.arg[2].tag = "String"
    /\ Len(Orig(last.arg[1])) = 2

\* Byte-wise lexicographic order as the claim words it: the first differing
\* byte decides, and a proper prefix is Less.
Lex(a, b) ==
    LET m == IF Len(a) < Len(b) THEN Len(a) ELSE Len(b)
        D == {k \in 1..m : a[k] /= b[k]} IN
    IF D /= {}
    THEN LET k == CHOOSE k \in D : \A j \in D : k <= j IN
         IF a[k] < b[k] THEN "Less" ELSE "Greater"
    ELSE IF Len(a) < Len(b) THEN "Less"
    ELSE IF Len(a) > Len(b) THEN "Greater"
    ELSE "Equal"

\* C3: cmp is the byte-wise lexicographic comparison of the two byte
\* sequences for every pair of variants, partial_cmp is Some of the same
\* result, and cmp is Equal exactly when the values are equal.
C3_CmpIsLexicographic ==
    /\ \A x \in Live, y \in Live :
        /\ cmp(heap, x, y) = Lex(Orig(x), Orig(y))
        /\ partial_cmp(heap, x, y) =
              [some |-> TRUE, ord |-> Lex(Orig(x), Orig(y))]
        /\ (cmp(heap, x, y) = "Equal") <=> eq(heap, x, y)
    /\ last.op = "cmp" =>
          last.res = Lex(Orig(last.arg[1]), Orig(last.arg[2]))
    /\ last.op = "partial_cmp" =>
          last.res = [some |-> TRUE,
                      ord |-> Lex(Orig(last.arg[1]), Orig(last.arg[2]))]

\* cmp returned Greater for a String value against a Slice value that
\* differs from it at the second byte.
C3_Witness ==
    /\ last.op = "cmp"
    /\ last.res = "Greater"
    /\ last.arg[1].tag = "String"
    /\ last.arg[2].tag = "Slice"
    /\ Orig(last.arg[1]) = <<97, 97>>
    /\ Orig(last.arg[2]) = <<97>>

\* C4: two values that compare equal, of any variants, feed the hasher the
\* same input, which is the hash input of the raw byte slice: no tag.
C4_EqualValuesHashAlike ==
    /\ \A x \in Live, y \in Live :
          eq(heap, x, y) => hash(heap, x) = hash(heap, y)
    /\ \A x \in Live : hash(heap, x) = SliceHash(Orig(x))
    /\ last.op = "hash" => last.res = SliceHash(Orig(last.arg[1]))

\* hash was called on a Bytes-variant value whose equal is a Vec value.
C4_Witness ==
    /\ last.op = "hash"
    /\ last.arg[1].tag = "Bytes"
    /\ \E y \in Live : y.tag = "Vec" /\ eq(heap, last.arg[1], y)
    /\ Len(last.res) = 3

\* The conversion table of the claim: source type to variant.
Table(kind) ==
    CASE kind \in {"mem", "str"}                   -> "Slice"
      [] kind \in {"array", "SBytes", "SBytesRef"} -> "Bytes"
      [] kind = "String"                           -> "String"
      [] kind = "Vec"                              -> "Vec"

\* C5: each conversion gives the variant the table fixes for its source
\* type, and converting an existing Bytes, by value or by reference, gives
\* the variant it already had.
C5_VariantTable ==
    /\ \A v \in Live : v.tag = Table(heap[v.ptr].kind)
    /\ last.op \in Conversions \ {"Bytes", "BytesRef"} =>
          last.out.tag = Table(last.op)
    /\ last.op \in {"Bytes", "BytesRef"} => last.out.tag = last.arg.tag

\* An owned String was converted and came out as the String variant.
C5_Witness ==
    /\ last.op = "String"
    /\ last.out.tag = "String"
    /\ last.out \in Live

\* C6: converting borrowed bytes, borrowed text, an owned Vec<u8> or an
\* owned String copies nothing: the value views the source's own storage,
\* and for a non-empty source the first byte seen through as_ref is at the
\* address the source's first byte had before the conversion.
C6_ZeroCopy ==
    last.op \in {"mem", "str", "Vec", "String"} =>
        /\ FirstByteAddr(last.out) = last.addr
        /\ heap[last.addr].kind = last.op
        /\ ~heap[last.addr].freed
        /\ as_ref(heap, last.out) = heap[last.addr].orig

\* A non-empty owned Vec<u8> was converted.
C6_Witness ==
    /\ last.op = "Vec"
    /\ last.out.len = 2
    /\ FirstByteAddr(last.out) = last.addr

\* The holders of the storage at address a: the live Bytes values of a
\* shared variant that point to it, and the caller's bytes::Bytes handles.
RECURSIVE Copies(_)
Copies(S) ==
    IF S = {} THEN 0
    ELSE LET v == CHOOSE v \in S : TRUE IN
         CopiesIn(v, vals) + Copies(S \ {v})

Holders(a) ==
    Copies({v \in Live : v.ptr = a /\ v.tag /= "Slice"})
    + Cardinality({s \in held : s.kind = "SBytes" /\ s.ptr = a})

\* C7: converting an existing Bytes by value gives back the same variant,
\* size and bytes and leaves the count alone; converting by reference
\* (&Bytes, &bytes::Bytes) gives a new value of the same variant, equal to
\* the original, that for a shared variant shares the storage with one more
\* count; the original is unchanged and outlives the release of the new
\* value.
C7_IdentityAndClone ==
    /\ last.op = "Bytes" =>
        /\ last.out = last.arg
        /\ last.out \in Live
        /\ size(last.out) = Len(Orig(last.arg))
        /\ as_ref(heap, last.out) = Orig(last.arg)
        /\ heap[last.out.ptr].rc = last.rc0
    /\ last.op = "BytesRef" =>
        /\ last.out.tag = last.arg.tag
        /\ eq(heap, last.out, last.arg)
        /\ last.arg \in Live
        /\ as_ref(heap, last.arg) = Orig(last.arg)
        /\ last.arg.tag /= "Slice" =>
            /\ last.out.ptr = last.arg.ptr
            /\ heap[last.arg.ptr].rc = last.rc0 + 1
    /\ last.op = "SBytesRef" =>
        /\ last.out.tag = "Bytes"
        /\ last.out.ptr = last.arg.ptr
        /\ size(last.out) = last.arg.len
        /\ heap[last.arg.ptr].rc = last.rc0 + 1
        /\ last.arg \in held
        /\ as_ref(heap, last.out) = Orig(last.arg)
    /\ (last.op = "drop" /\ last.arg.tag /= "Slice" /\ last.rc0 > 1) =>
        /\ ~heap[last.arg.ptr].freed
        /\ heap[last.arg.ptr].data = Orig(last.arg)

\* A Vec value was cloned through &Bytes: two holders of one storage.
C7_Witness ==
    /\ last.op = "BytesRef"
    /\ last.arg.tag = "Vec"
    /\ last.rc0 = 1
    /\ heap[last.arg.ptr].rc = 2
    /\ CopiesIn(last.arg, vals) = 2

\* C8: the count of reference-counted storage equals its number of live
\* holders, each release takes one off, the storage is freed exactly when
\* the count is zero and never under a live value; a converted Vec<u8> or
\* String starts at a count of one; releasing a Slice leaves its source as
\* it was.
C8_CountIsHolders ==
    /\ \A a \in 1..Len(heap) :
          heap[a].counted =>
              /\ heap[a].rc = Holders(a)
              /\ heap[a].freed <=> (heap[a].rc = 0)
    /\ \A v \in Live :
          ~heap[v.ptr].freed /\ heap[v.ptr].data = Orig(v)
    /\ last.op \in {"Vec", "String"} =>
          heap[last.out.ptr].counted /\ heap[last.out.ptr].rc = 1
    /\ (last.op = "drop" /\ last.arg.tag /= "Slice") =>
          heap[last.arg.ptr].rc = last.rc0 - 1
    /\ (last.op = "drop" /\ last.arg.tag = "Slice") =>
          /\ ~heap[last.arg.ptr].freed
          /\ heap[last.arg.ptr].data = Orig(last.arg)
          /\ heap[last.arg.ptr].rc = last.rc0
          /\ \E s \in held : s.ptr = last.arg.ptr

\* The last of two holders of a Vec storage was released and it was freed.
C8_Witness ==
    /\ last.op = "drop"
    /\ last.arg.tag = "Vec"
    /\ last.rc0 = 1
    /\ heap[last.arg.ptr].freed
    /\ Live = {}
    /\ \E a \in 1..Len(heap) : heap[a].kind = "mem" /\ ~heap[a].freed

\* C9 as stated: converting a bytes::Bytes by value adds one to the count
\* of its storage.
C9_Original_CountIncremented ==
    last.op = "SBytes" =>
        /\ last.out.tag = "Bytes"
        /\ last.out.ptr = last.addr
        /\ heap[last.out.ptr].rc = last.rc0 + 1

\* C9, amended: converting a bytes::Bytes by value gives the Bytes variant
\* over the same storage, copying nothing, and the count of that storage is
\* what it was before: the handle is moved into the value.
C9_MovedCountUnchanged ==
    last.op = "SBytes" =>
        /\ last.out.tag = "Bytes"
        /\ last.out.ptr = last.addr
        /\ heap[last.addr].kind = "SBytes"
        /\ ~heap[last.addr].freed
        /\ as_ref(heap, last.out) = heap[last.addr].orig
        /\ heap[last.out.ptr].rc = last.rc0
        /\ heap[last.out.ptr].rc = Holders(last.out.ptr)

\* A non-empty bytes::Bytes was converted by value.
C9_Witness ==
    /\ last.op = "SBytes"
    /\ last.out.len = 2
    /\ last.rc0 = 1
    /\ last.arg \notin held

\* C10: a [u8; n] is converted only for n from 0 to 16: it is copied once
\* into a Bytes-variant value of size n that equals a Slice over the same
\* bytes; a longer array, or a source of a type outside the table, is
\* rejected and no value is made of it.
C10_ArraysUpTo16 ==
    /\ last.op = "array" =>
        /\ Len(last.arg) \in 0..16
        /\ last.out.tag = "Bytes"
        /\ size(last.out) = Len(last.arg)
        /\ as_ref(heap, last.out) = last.arg
        /\ heap[last.out.ptr].kind = "array"
        /\ heap[last.out.ptr].rc = 1
        /\ LET h2 == AllocSource(heap, "mem", last.arg)
               sl == to_bytes(h2, SrcHandle(heap, "mem", last.arg)).b IN
           sl.tag = "Slice" /\ eq(h2, last.out, sl) /\ eq(h2, sl, last.out)
    /\ last.op = "array_rejected" => Len(last.arg) > 16
    /\ Len(input[1]) > 16 =>
          \A a \in 1..Len(heap) : heap[a].kind /= "array"
    /\ \A v \in Live :
        /\ heap[v.ptr].kind = "array" => size(v) <= 16
        /\ heap[v.ptr].kind /= "Other"
    /\ last.op = "rejected" =>
          /\ last.arg.kind = "Other"
          /\ last.arg \in held
          /\ \A v \in Live : v.ptr /= last.arg.ptr

\* A 16-byte array was converted.
C10_Witness ==
    /\ last.op = "array"
    /\ Len(last.arg) = 16
    /\ size(last.out) = 16

====
